---- MODULE Spec2Model ----
(***************************************************************************)
(* Model of the MIGraphX execution provider of onnxruntime                 *)
(* (onnxruntime/core/providers/migraphx/migraphx_execution_provider.cc):   *)
(* node-support classification, partitioning of the topological order into *)
(* supported clusters, boundary (input/output) inference per cluster and   *)
(* the GetCapability entry point.                                          *)
(***************************************************************************)
EXTENDS Integers, Sequences, FiniteSets, TLC

(***************************************************************************)
(* Bounds of the model.                                                    *)
(***************************************************************************)
\* largest number of nodes of a graph handed to GetCapability
MaxNodes == 2
\* largest number of GetCapability calls in one behaviour
MaxCalls == 2
\* longest topological order handed to the partitioner on its own
MaxOrderLen == 5
\* largest number of input slots of a node classified on its own
MaxSlots == 1

(***************************************************************************)
(* Generic helpers on sequences.                                           *)
(***************************************************************************)
SeqToSet(s) == {s[i] : i \in 1..Len(s)}

NoDuplicates(s) == \A i, j \in 1..Len(s) : i # j => s[i] # s[j]

RECURSIVE Flatten(_)
Flatten(ss) == IF ss = <<>> THEN <<>> ELSE Head(ss) \o Flatten(Tail(ss))

\* the elements of s in their order, each kept at its first occurrence only
RECURSIVE FirstSeen(_)
FirstSeen(s) ==
  IF s = <<>> THEN <<>>
  ELSE LET r == FirstSeen(SubSeq(s, 1, Len(s) - 1))
           x == s[Len(s)]
       IN IF x \in SeqToSet(r) THEN r ELSE Append(r, x)

\* s restricted to the elements satisfying membership in S, order kept
Restrict(s, S) == SelectSeq(s, LAMBDA x : x \in S)

(***************************************************************************)
(* Element types (ONNX TensorProto_DataType) and the type test.            *)
(***************************************************************************)
NoTypeProto == "NoTypeProto"

ElemTypes ==
  {"UNDEFINED", "FLOAT", "UINT8", "INT8", "UINT16", "INT16", "INT32", "INT64",
   "STRING", "BOOL", "FLOAT16", "DOUBLE", "UINT32", "UINT64", "COMPLEX64",
   "COMPLEX128", "BFLOAT16"}

\* IsTypeSupported with a BOOL case added to the switch
IsTypeSupported_AcceptsBool(type_proto) ==
  type_proto \in {"FLOAT16", "FLOAT", "DOUBLE", "INT8", "INT16", "INT32", "INT64",
                  "UINT8", "UINT16", "UINT32", "UINT64", "BOOL"}

\* IsTypeSupported(node_arg): the argument is the NodeArg's type, NoTypeProto
\* when TypeAsProto() is null
IsTypeSupported(type_proto) ==
  IF type_proto = NoTypeProto THEN FALSE
  ELSE CASE type_proto = "FLOAT16" -> TRUE
         [] type_proto = "FLOAT" -> TRUE
         [] type_proto = "DOUBLE" -> TRUE
         [] type_proto = "INT8" -> TRUE
         [] type_proto = "INT16" -> TRUE
         [] type_proto = "INT32" -> TRUE
         [] type_proto = "INT64" -> TRUE
         [] type_proto = "UINT8" -> TRUE
         [] type_proto = "UINT16" -> TRUE
         [] type_proto = "UINT32" -> TRUE
         [] type_proto = "UINT64" -> TRUE
         [] OTHER -> FALSE

\* Node::ForEachDef: the node's input defs, then its output defs
ForEachDef(node) == node.inputs \o node.outputs

\* IsNodeSupported(op_set, graph_viewer, node_idx), on the node and the
\* element types of the graph's NodeArgs
NodeSupported(op_set, node, types) ==
  LET are_types_supported ==
        \A i \in 1..Len(ForEachDef(node)) : IsTypeSupported(types[ForEachDef(node)[i]])
  IN IF ~are_types_supported THEN FALSE
     ELSE IF node.op \in op_set THEN TRUE ELSE FALSE

IsNodeSupported(op_set, graph_viewer, node_idx) ==
  NodeSupported(op_set, graph_viewer.nodes[node_idx], graph_viewer.types)

\* migraphx::get_supported_ops(): the backend's supported operator set
GetMiGraphXSupportedOps == {"Add", "Relu"}

(***************************************************************************)
(* State.                                                                  *)
(***************************************************************************)
VARIABLES
  graph_viewer,      \* the graph GetCapability is called on
  hash_order,        \* iteration order the build gives std::unordered_set<std::string>
  parse_model,       \* what migraphx::parse_model answers for the graph: prog.size()
  op_counter,        \* AppendNodesToSubGraph's static op_counter
  result,            \* the capabilities returned by the last GetCapability call
  steps,             \* the steps the last GetCapability call went through, in order
  calls,             \* number of GetCapability calls made
  phase,             \* "build" while the host assembles the graph, then "loaded"
  topological_order, \* partitioner on its own: its first argument
  unsupported_nodes, \* partitioner on its own: its second argument
  mgx_subgraphx,     \* partitioner on its own: the clusters returned
  node_under_test,   \* classifier on its own: the node and its slot types
  op_set,            \* classifier on its own: the backend's supported-op set
  is_supported,      \* classifier on its own: the value IsNodeSupported returned
  cluster,           \* boundary resolver on its own: the cluster it is called on
  cluster_io,        \* boundary resolver on its own: the lists it filled
  fused_nodes,       \* the fused nodes handed to Compile
  compile_status,    \* "none" before Compile, then "OK" or "raised"
  map_progs_,        \* provider member: fused-node name -> compiled program
  map_scratches_,    \* provider member: fused-node name -> scratch buffer
  map_input_index_,  \* provider member: fused-node name -> input_index_map
  map_output_index_, \* provider member: fused-node name -> output_index_map
  node_compute_funcs, \* the NodeComputeInfo entries Compile pushed, by fused-node name
  parse_calls,       \* the fused nodes whose model Compile gave to migraphx::parse_model
  func_states,       \* fused-node name -> the MiGraphXFuncState create_state_func made
  pc,                \* per caller thread: where it is in compute_func
  frame,             \* per caller thread: the locals of its compute_func call
  lock,              \* per caller thread: the mutex its lock_guard holds
  inference_calls    \* number of compute_func calls made

vars ==
  <<graph_viewer, hash_order, parse_model, op_counter, result, steps, calls, phase,
    topological_order, unsupported_nodes, mgx_subgraphx,
    node_under_test, op_set, is_supported, cluster, cluster_io,
    fused_nodes, compile_status, map_progs_, map_scratches_, map_input_index_,
    map_output_index_, node_compute_funcs, parse_calls, func_states, pc, frame, lock,
    inference_calls>>

capabilityVars ==
  <<graph_viewer, hash_order, parse_model, op_counter, result, steps, calls, phase>>
partitionVars == <<topological_order, unsupported_nodes, mgx_subgraphx>>
oracleVars == <<node_under_test, op_set, is_supported>>
boundaryVars == <<cluster, cluster_io>>
compileVars ==
  <<fused_nodes, compile_status, map_progs_, map_scratches_, map_input_index_,
    map_output_index_, node_compute_funcs, parse_calls>>
dispatchVars == <<func_states, pc, frame, lock, inference_calls>>

\* values of the result variables before the operation has run
NoClusters == [returned |-> FALSE, clusters |-> <<>>]
NoVerdict == [returned |-> FALSE, supported |-> FALSE, unsupported_nodes_idx |-> <<>>]
NoBoundary == [returned |-> FALSE, nodes_inputs |-> <<>>, nodes_outputs |-> <<>>]

\* the provider before Compile, with no caller thread
IdleDispatch ==
  /\ fused_nodes = <<>>
  /\ compile_status = "none"
  /\ map_progs_ = <<>>
  /\ map_scratches_ = <<>>
  /\ map_input_index_ = <<>>
  /\ map_output_index_ = <<>>
  /\ node_compute_funcs = <<>>
  /\ parse_calls = <<>>
  /\ func_states = <<>>
  /\ pc = <<>>
  /\ frame = <<>>
  /\ lock = <<>>
  /\ inference_calls = 0

(***************************************************************************)
(* GetUnsupportedNodeIndices.                                              *)
(***************************************************************************)
\* GetUnsupportedNodeIndices walking the nodes from the last to the first
GetUnsupportedNodeIndices_Backwards(g) ==
  LET mgx_supported_ops == GetMiGraphXSupportedOps
      supported(node_idx) == IsNodeSupported(mgx_supported_ops, g, node_idx)
      backwards == [i \in 1..Len(g.order) |-> g.order[Len(g.order) + 1 - i]]
  IN [unsupported_nodes_idx |-> SelectSeq(backwards, LAMBDA node_idx : ~supported(node_idx)),
      mgx_required_initializers |->
        {name \in g.initializers :
           \E i \in 1..Len(g.order) :
              /\ supported(g.order[i])
              /\ name \in SeqToSet(g.nodes[g.order[i]].inputs)}]

\* GetUnsupportedNodeIndices taking the nodes the probe parse reported as
\* unsupported as well
GetUnsupportedNodeIndices_WithProbe(g) ==
  LET mgx_supported_ops == GetMiGraphXSupportedOps
      supported(node_idx) ==
        /\ IsNodeSupported(mgx_supported_ops, g, node_idx)
        /\ node_idx \notin SeqToSet(parse_model.unsupported_nodes_temp)
  IN [unsupported_nodes_idx |-> SelectSeq(g.order, LAMBDA node_idx : ~supported(node_idx)),
      mgx_required_initializers |->
        {name \in g.initializers :
           \E i \in 1..Len(g.order) :
              /\ supported(g.order[i])
              /\ name \in SeqToSet(g.nodes[g.order[i]].inputs)}]

GetUnsupportedNodeIndices(g) ==
  LET mgx_supported_ops == GetMiGraphXSupportedOps
      supported(node_idx) == IsNodeSupported(mgx_supported_ops, g, node_idx)
  IN [unsupported_nodes_idx |-> SelectSeq(g.order, LAMBDA node_idx : ~supported(node_idx)),
      mgx_required_initializers |->
        {name \in g.initializers :
           \E i \in 1..Len(g.order) :
              /\ supported(g.order[i])
              /\ name \in SeqToSet(g.nodes[g.order[i]].inputs)}]

(***************************************************************************)
(* GetPartitionedSubgraphs.                                                *)
(***************************************************************************)
\* std::find(prev, topological_order.end(), unsup_node): the first position
\* from prev on that holds unsup_node, the end position when there is none
Find(order, prev, unsup_node) ==
  IF \E i \in prev..Len(order) : order[i] = unsup_node
  THEN CHOOSE i \in prev..Len(order) :
         /\ order[i] = unsup_node
         /\ \A j \in prev..(i - 1) : order[j] # unsup_node
  ELSE Len(order) + 1

\* NextCursor with the increment forgotten: prev = it
NextCursor_NoIncrement(it) == it

\* the position after the one std::find returned: prev = ++it
NextCursor(it) == it + 1

\* the positions std::find returns in the loop over the unsupported nodes
RECURSIVE FindPositions(_, _, _)
FindPositions(order, unsup, prev) ==
  IF unsup = <<>> THEN <<>>
  ELSE LET it == Find(order, prev, Head(unsup))
       IN <<it>> \o FindPositions(order, Tail(unsup), NextCursor(it))

RECURSIVE PartitionScan(_, _, _, _)
PartitionScan(order, unsup, prev, acc) ==
  IF unsup = <<>>
  THEN LET this_subgraph == SubSeq(order, prev, Len(order))
       IN IF this_subgraph # <<>> THEN Append(acc, this_subgraph) ELSE acc
  ELSE LET it == Find(order, prev, Head(unsup))
           this_subgraph == SubSeq(order, prev, it - 1)
       IN PartitionScan(order, Tail(unsup), NextCursor(it),
                        IF this_subgraph # <<>> THEN Append(acc, this_subgraph) ELSE acc)

\* GetPartitionedSubgraphs without the emptiness tests: every range is pushed
RECURSIVE PartitionScan_KeepEmpty(_, _, _, _)
PartitionScan_KeepEmpty(order, unsup, prev, acc) ==
  IF unsup = <<>>
  THEN Append(acc, SubSeq(order, prev, Len(order)))
  ELSE LET it == Find(order, prev, Head(unsup))
       IN PartitionScan_KeepEmpty(order, Tail(unsup), NextCursor(it),
                                  Append(acc, SubSeq(order, prev, it - 1)))

GetPartitionedSubgraphs_KeepEmpty(order, unsup) ==
  PartitionScan_KeepEmpty(order, unsup, 1, <<>>)

GetPartitionedSubgraphs(order, unsup) == PartitionScan(order, unsup, 1, <<>>)

(***************************************************************************)
(* GetInputsOutputsOfSubgraph.                                             *)
(***************************************************************************)
\* UnorderedIter with an iteration order that changes from one call to the next
UnorderedIter_Unstable(S) ==
  IF op_counter % 2 = 0 THEN Restrict(hash_order, S)
  ELSE Restrict([i \in 1..Len(hash_order) |-> hash_order[Len(hash_order) + 1 - i]], S)

\* iteration of a std::unordered_set<std::string> holding the names S
UnorderedIter(S) == Restrict(hash_order, S)

\* Node::OutputNodesBegin..End: the nodes with an edge from node_idx
OutputNodes(g, node_idx) ==
  {m \in SeqToSet(g.order) :
     SeqToSet(g.nodes[node_idx].outputs) \cap SeqToSet(g.nodes[m].inputs) # {}}

\* OrderedInputArgs without the input_args.count test: every occurrence is pushed
OrderedInputArgs_NoDedup(g, nodes) ==
  Flatten([i \in 1..Len(nodes) |-> g.nodes[nodes[i]].inputs])

\* the names first-seen order collects: ordered_input_args
OrderedInputArgs(g, nodes) ==
  FirstSeen(Flatten([i \in 1..Len(nodes) |-> g.nodes[nodes[i]].inputs]))

\* output_args: every name a node of the cluster produces
OutputArgs(g, nodes) ==
  UNION {SeqToSet(g.nodes[nodes[i]].outputs) : i \in 1..Len(nodes)}

\* ExternalOutputArgs without the search through the outside node's inputs:
\* every output of a node that has a consumer outside the cluster is taken
ExternalOutputArgs_AnyOutput(g, nodes) ==
  {name \in OutputArgs(g, nodes) :
     \E i \in 1..Len(nodes) : \E ext_node \in OutputNodes(g, nodes[i]) :
        /\ ext_node \notin SeqToSet(nodes)
        /\ name \in SeqToSet(g.nodes[nodes[i]].outputs)}

\* external_output_args: outputs of cluster nodes read by a node outside it
ExternalOutputArgs(g, nodes) ==
  {name \in OutputArgs(g, nodes) :
     \E i \in 1..Len(nodes) : \E ext_node \in OutputNodes(g, nodes[i]) :
        /\ ext_node \notin SeqToSet(nodes)
        /\ name \in SeqToSet(g.nodes[nodes[i]].outputs)
        /\ name \in SeqToSet(g.nodes[ext_node].inputs)}

\* the test both input loops apply to a name of ordered_input_args
IsConstInput(g, mgx_required_initializers, in_arg) ==
  \/ (in_arg \in g.initializers /\ in_arg \notin SeqToSet(g.inputs_including_initializers))
  \/ in_arg \in mgx_required_initializers

\* SubgraphInputs with the constants left where first-seen order has them
SubgraphInputs_NoReorder(g, nodes, mgx_required_initializers) ==
  LET ordered_input_args == OrderedInputArgs(g, nodes)
      output_args == OutputArgs(g, nodes)
  IN SelectSeq(ordered_input_args,
               LAMBDA in_arg : \/ in_arg \notin output_args
                               \/ IsConstInput(g, mgx_required_initializers, in_arg))

\* SubgraphInputs without the output_args test on the runtime inputs
SubgraphInputs_KeepsProduced(g, nodes, mgx_required_initializers) ==
  LET ordered_input_args == OrderedInputArgs(g, nodes)
      const_inputs ==
        SelectSeq(ordered_input_args,
                  LAMBDA in_arg : IsConstInput(g, mgx_required_initializers, in_arg))
      runtime_inputs ==
        SelectSeq(ordered_input_args,
                  LAMBDA in_arg : ~IsConstInput(g, mgx_required_initializers, in_arg))
  IN runtime_inputs \o const_inputs

SubgraphInputs(g, nodes, mgx_required_initializers) ==
  LET ordered_input_args == OrderedInputArgs(g, nodes)
      output_args == OutputArgs(g, nodes)
      const_inputs ==
        SelectSeq(ordered_input_args,
                  LAMBDA in_arg : IsConstInput(g, mgx_required_initializers, in_arg))
      runtime_inputs ==
        SelectSeq(ordered_input_args,
                  LAMBDA in_arg : /\ in_arg \notin output_args
                                  /\ ~IsConstInput(g, mgx_required_initializers, in_arg))
  IN runtime_inputs \o const_inputs

\* SubgraphOutputs without the output_args.count test on the graph outputs
SubgraphOutputs_AnyGraphOutput(g, nodes) ==
  LET external_output_args == ExternalOutputArgs(g, nodes)
  IN UnorderedIter(external_output_args)
       \o SelectSeq(g.outputs, LAMBDA name : name \notin external_output_args)

SubgraphOutputs(g, nodes) ==
  LET output_args == OutputArgs(g, nodes)
      external_output_args == ExternalOutputArgs(g, nodes)
  IN UnorderedIter(external_output_args)
       \o SelectSeq(g.outputs,
                    LAMBDA name : name \in output_args /\ name \notin external_output_args)

GetInputsOutputsOfSubgraph(g, nodes, mgx_required_initializers) ==
  [nodes_inputs |-> SubgraphInputs(g, nodes, mgx_required_initializers),
   nodes_outputs |-> SubgraphOutputs(g, nodes)]

(***************************************************************************)
(* AppendNodesToSubGraph: res is the pair (result vector, op_counter).     *)
(***************************************************************************)
MetaDefName(n) == <<"MIGraphX_", n>>

\* AppendNodesToSubGraph with a counter that is not static: the increment is lost
AppendNodesToSubGraph_StaleCounter(nodes, inputs, outputs, res) ==
  [result |-> Append(res.result,
                     [name |-> MetaDefName(res.op_counter + 1),
                      nodes |-> nodes, inputs |-> inputs, outputs |-> outputs]),
   op_counter |-> res.op_counter]

AppendNodesToSubGraph(nodes, inputs, outputs, res) ==
  [result |-> Append(res.result,
                     [name |-> MetaDefName(res.op_counter + 1),
                      nodes |-> nodes, inputs |-> inputs, outputs |-> outputs]),
   op_counter |-> res.op_counter + 1]

(***************************************************************************)
(* GetCapability.                                                          *)
(***************************************************************************)
\* model_proto.graph().output_size() of the model rebuilt from the graph
NumModelOutputs(g) == Len(g.outputs)

\* model_proto.graph().input(i).name() of the model rebuilt from the graph
ModelInputNames(g) == g.inputs

\* AppendClusters without the cluster_inputs.empty() test
RECURSIVE AppendClusters_KeepsEmpty(_, _, _, _)
AppendClusters_KeepsEmpty(g, mgx_clusters, mgx_required_initializers, res) ==
  IF mgx_clusters = <<>> THEN res
  ELSE LET this_cluster == Head(mgx_clusters)
           io == GetInputsOutputsOfSubgraph(g, this_cluster, mgx_required_initializers)
       IN AppendClusters_KeepsEmpty(g, Tail(mgx_clusters), mgx_required_initializers,
                                    AppendNodesToSubGraph(this_cluster, io.nodes_inputs,
                                                          io.nodes_outputs, res))

RECURSIVE AppendClusters(_, _, _, _)
AppendClusters(g, mgx_clusters, mgx_required_initializers, res) ==
  IF mgx_clusters = <<>> THEN res
  ELSE LET this_cluster == Head(mgx_clusters)
           io == GetInputsOutputsOfSubgraph(g, this_cluster, mgx_required_initializers)
       IN AppendClusters(g, Tail(mgx_clusters), mgx_required_initializers,
                         IF io.nodes_inputs # <<>>
                         THEN AppendNodesToSubGraph(this_cluster, io.nodes_inputs,
                                                    io.nodes_outputs, res)
                         ELSE res)

\* WholeGraphCapability without the initializers appended to the inputs
WholeGraphCapability_NoInitializers(g, mgx_required_initializers, res) ==
  IF g.inputs = <<>> THEN res
  ELSE AppendNodesToSubGraph(g.order, g.inputs, g.outputs, res)

\* the whole-graph branch: every node is supported
WholeGraphCapability(g, mgx_required_initializers, res) ==
  LET inputs == g.inputs
  IN IF inputs = <<>> THEN res
     ELSE AppendNodesToSubGraph(g.order,
                                inputs \o UnorderedIter(mgx_required_initializers),
                                g.outputs, res)

\* ReturnedAt with the output-count and dynamic-shape tests left out
ReturnedAt_NoShapeTests(g, prog_size) ==
  IF g.is_subgraph THEN "IsSubgraph"
  ELSE IF \E tensor \in g.initializers : tensor \in g.external_initializers
       THEN "ExternalInitializer"
  ELSE IF prog_size = 0 THEN "EmptyProgram"
  ELSE IF GetUnsupportedNodeIndices(g).unsupported_nodes_idx = <<>>
       THEN (IF g.inputs = <<>> THEN "NoInputs" ELSE "WholeGraph")
  ELSE "Partitioned"

\* ReturnedAt with the prog.size() test left out
ReturnedAt_NoProbeTest(g, prog_size) ==
  IF g.is_subgraph THEN "IsSubgraph"
  ELSE IF \E tensor \in g.initializers : tensor \in g.external_initializers
       THEN "ExternalInitializer"
  ELSE IF NumModelOutputs(g) > 1 THEN "MultipleOutputs"
  ELSE IF \E i \in 1..Len(ModelInputNames(g)) : ModelInputNames(g)[i] \in g.dynamic_shape
       THEN "DynamicShape"
  ELSE IF GetUnsupportedNodeIndices(g).unsupported_nodes_idx = <<>>
       THEN (IF g.inputs = <<>> THEN "NoInputs" ELSE "WholeGraph")
  ELSE "Partitioned"

\* the branch GetCapability returns from, for the graph g and prog.size()
ReturnedAt(g, prog_size) ==
  IF g.is_subgraph THEN "IsSubgraph"
  ELSE IF \E tensor \in g.initializers : tensor \in g.external_initializers
       THEN "ExternalInitializer"
  ELSE IF NumModelOutputs(g) > 1 THEN "MultipleOutputs"
  ELSE IF \E i \in 1..Len(ModelInputNames(g)) : ModelInputNames(g)[i] \in g.dynamic_shape
       THEN "DynamicShape"
  ELSE IF prog_size = 0 THEN "EmptyProgram"
  ELSE IF GetUnsupportedNodeIndices(g).unsupported_nodes_idx = <<>>
       THEN (IF g.inputs = <<>> THEN "NoInputs" ELSE "WholeGraph")
  ELSE "Partitioned"

\* the statements of GetCapability in program order: the tests, the rebuild of
\* the graph as a model, the probe parse, the support scan, the partitioning
StepOrder ==
  <<"IsSubgraph", "ExternalInitializer", "RebuildModel", "MultipleOutputs", "DynamicShape",
    "parse_model", "GetUnsupportedNodeIndices", "GetPartitionedSubgraphs">>

\* the last step GetCapability goes through when it returns at the given branch
LastStep(at) ==
  CASE at = "EmptyProgram" -> "parse_model"
    [] at \in {"NoInputs", "WholeGraph"} -> "GetUnsupportedNodeIndices"
    [] at = "Partitioned" -> "GetPartitionedSubgraphs"
    [] OTHER -> at

\* GetCapabilitySteps with the external-initializer test moved after the probe
GetCapabilitySteps_LateExternalTest(g, prog_size) ==
  IF g.is_subgraph THEN <<"IsSubgraph">>
  ELSE IF \E tensor \in g.initializers : tensor \in g.external_initializers
       THEN <<"IsSubgraph", "RebuildModel", "MultipleOutputs", "DynamicShape",
              "parse_model", "ExternalInitializer">>
  ELSE SubSeq(StepOrder, 1,
              CHOOSE i \in 1..Len(StepOrder) : StepOrder[i] = LastStep(ReturnedAt(g, prog_size)))

\* the steps a GetCapability call goes through before it returns
GetCapabilitySteps(g, prog_size) ==
  LET last_step == LastStep(ReturnedAt(g, prog_size))
  IN SubSeq(StepOrder, 1, CHOOSE i \in 1..Len(StepOrder) : StepOrder[i] = last_step)

\* GetCapability(graph_viewer): the capabilities returned and the counter after
GetCapability(g, prog_size, counter) ==
  LET res == [result |-> <<>>, op_counter |-> counter]
      at == ReturnedAt(g, prog_size)
      u == GetUnsupportedNodeIndices(g)
  IN IF at \in {"IsSubgraph", "ExternalInitializer", "MultipleOutputs", "DynamicShape",
                "EmptyProgram"}
     THEN res
     ELSE IF u.unsupported_nodes_idx = <<>>
          THEN WholeGraphCapability(g, u.mgx_required_initializers, res)
          ELSE AppendClusters(g, GetPartitionedSubgraphs(g.order, u.unsupported_nodes_idx),
                              u.mgx_required_initializers, res)

(***************************************************************************)
(* The graphs GetCapability is called on.  A graph is the GraphViewer's    *)
(* content: the node indices in topological order, the nodes, the element  *)
(* type of every NodeArg, the initializers, the declared inputs and        *)
(* outputs, and what the feasibility checks read.  The host assembles a    *)
(* graph of at most MaxNodes nodes with one input and one output per node, *)
(* plus at most one feature: a second input or a second output of a node,  *)
(* a second declared output, a tripped feasibility check.                  *)
(***************************************************************************)
\* names a node can read that no node produces: a runtime input and two
\* initializers
RuntimeName == "X"
InitializerNames == {"W", "V"}

\* names of the outputs of the node at each topological position
OutNames == << <<"a1", "a2">>, <<"b1", "b2">>, <<"c1", "c2">>, <<"d1", "d2">>, <<"e1", "e2">> >>

AllNames == {RuntimeName} \cup InitializerNames
              \cup UNION {SeqToSet(OutNames[p]) : p \in 1..Len(OutNames)}

\* the two iteration orders the build can give a set of names
NameOrder == <<"X", "W", "V", "a1", "a2", "b1", "b2", "c1", "c2", "d1", "d2", "e1", "e2">>
Reverse(s) == [i \in 1..Len(s) |-> s[Len(s) + 1 - i]]
HashOrders == {NameOrder, Reverse(NameOrder)}

\* the NodeIndex of the node at topological position p: indices are not positions
NodeIndexAt(p) == 7 - p

\* operator types nodes are drawn from: one the backend supports, one it does not
OpTypes == {"Add", "NonZero"}

NameTypes == [name \in AllNames |-> IF name = "V" THEN "INT64" ELSE "FLOAT"]

EmptyGraph ==
  [order |-> <<>>, nodes |-> <<>>, types |-> NameTypes,
   initializers |-> InitializerNames, external_initializers |-> {},
   inputs |-> <<>>, inputs_including_initializers |-> <<>>, outputs |-> <<>>,
   dynamic_shape |-> {}, is_subgraph |-> FALSE]

ExtraDefs(node) == (Len(node.inputs) - 1) + (Len(node.outputs) - 1)

\* some node of g has a second input or output
HasExtraDef(g) == \E idx \in DOMAIN g.nodes : ExtraDefs(g.nodes[idx]) > 0

ProducedNames(g) == UNION {SeqToSet(g.nodes[idx].outputs) : idx \in DOMAIN g.nodes}

\* the nodes the host can append to g
NodeChoices(g) ==
  LET pool == {RuntimeName} \cup InitializerNames \cup ProducedNames(g)
      p == Len(g.order) + 1
      ins == {<<a>> : a \in pool}
               \cup (IF HasExtraDef(g) THEN {} ELSE {<<a, b>> : a \in pool, b \in pool})
      outs == {<<OutNames[p][1]>>} \cup (IF HasExtraDef(g) THEN {} ELSE {OutNames[p]})
  IN {nd \in [op : OpTypes, inputs : ins, outputs : outs] : ExtraDefs(nd) <= 1}

\* the feasibility features a graph can have
GateFeatures == {"subgraph", "external", "dynamic", "empty_program", "second_output"}

\* declared outputs: one produced name; with the feature, the last node's
\* output and another produced name
DeclaredOutputs(g, second) ==
  IF g.order = <<>> THEN {<<>>}
  ELSE LET last == g.nodes[g.order[Len(g.order)]].outputs[1]
       IN IF second /\ ProducedNames(g) # {last}
          THEN {<<last, o>> : o \in ProducedNames(g) \ {last}}
          ELSE {<<o>> : o \in ProducedNames(g)}

\* declared inputs (GetInputs): the runtime input when a node reads it, and
\* with or without it when none does
DeclaredInputs(g) ==
  IF \E idx \in DOMAIN g.nodes : RuntimeName \in SeqToSet(g.nodes[idx].inputs)
  THEN {<<RuntimeName>>}
  ELSE {<<>>, <<RuntimeName>>}

(***************************************************************************)
(* Actions: the host assembles and loads a graph, then calls GetCapability.*)
(***************************************************************************)
IdleOthers ==
  /\ UNCHANGED partitionVars
  /\ UNCHANGED oracleVars
  /\ UNCHANGED boundaryVars
  /\ UNCHANGED compileVars
  /\ UNCHANGED dispatchVars

Init ==
  /\ graph_viewer = EmptyGraph
  /\ hash_order \in HashOrders
  /\ parse_model = [prog_size |-> 1, unsupported_nodes_temp |-> <<>>]
  /\ op_counter = 0
  /\ result = <<>>
  /\ steps = <<>>
  /\ calls = 0
  /\ phase = "build"
  /\ topological_order = <<>>
  /\ unsupported_nodes = <<>>
  /\ mgx_subgraphx = NoClusters
  /\ node_under_test = EmptyGraph
  /\ op_set = {}
  /\ is_supported = NoVerdict
  /\ cluster = <<>>
  /\ cluster_io = NoBoundary
  /\ IdleDispatch

AddNode ==
  /\ phase = "build"
  /\ Len(graph_viewer.order) < MaxNodes
  /\ \E nd \in NodeChoices(graph_viewer) :
       LET idx == NodeIndexAt(Len(graph_viewer.order) + 1)
       IN graph_viewer' =
            [graph_viewer EXCEPT
               !.order = Append(@, idx),
               !.nodes = [i \in DOMAIN @ \cup {idx} |-> IF i = idx THEN nd ELSE @[i]]]
  /\ UNCHANGED <<hash_order, parse_model, op_counter, result, steps, calls, phase>>
  /\ IdleOthers

LoadGraph ==
  /\ phase = "build"
  /\ graph_viewer.order # <<>>
  /\ \E f \in {{}} \cup (IF HasExtraDef(graph_viewer) THEN {}
                          ELSE {{x} : x \in GateFeatures}) :
       /\ \E ins \in DeclaredInputs(graph_viewer) :
          \E outs \in DeclaredOutputs(graph_viewer, "second_output" \in f) :
            /\ graph_viewer' =
                 [graph_viewer EXCEPT
                    !.external_initializers = IF "external" \in f THEN {"W"} ELSE {},
                    !.inputs = ins,
                    !.inputs_including_initializers = ins \o <<"W">>,
                    !.outputs = outs,
                    !.dynamic_shape = IF "dynamic" \in f THEN {RuntimeName} ELSE {},
                    !.is_subgraph = ("subgraph" \in f)]
            /\ parse_model' = [prog_size |-> IF "empty_program" \in f THEN 0 ELSE 1,
                                unsupported_nodes_temp |-> <<>>]
  /\ phase' = "loaded"
  /\ UNCHANGED <<hash_order, op_counter, result, steps, calls>>
  /\ IdleOthers

CallGetCapability ==
  /\ phase = "loaded"
  /\ calls < MaxCalls
  /\ LET r == GetCapability(graph_viewer, parse_model.prog_size, op_counter)
     IN /\ result' = r.result
        /\ op_counter' = r.op_counter
  /\ steps' = GetCapabilitySteps(graph_viewer, parse_model.prog_size)
  /\ calls' = calls + 1
  /\ UNCHANGED <<graph_viewer, hash_order, parse_model, phase>>
  /\ IdleOthers

Next == AddNode \/ LoadGraph \/ CallGetCapability

Spec == Init /\ [][Next]_vars

(***************************************************************************)
(* GetCapability on graphs that trip no feasibility check, with a probe    *)
(* parse that reports nothing or the first node as unsupported.            *)
(* The nodes of these graphs have one input or none (as a Constant node    *)
(* has) and one output; one node can have two outputs, and a later node    *)
(* can read both.  The declared output is the output of the last node.     *)
(***************************************************************************)
\* the input lists of a node that reads both outputs of a node of g
BothOutputs(g) ==
  {g.nodes[idx].outputs : idx \in {i \in DOMAIN g.nodes : Len(g.nodes[i].outputs) = 2}}

\* the nodes the host can append to g
ProbedNodeChoices(g) ==
  LET pool == {RuntimeName} \cup InitializerNames \cup ProducedNames(g)
      p == Len(g.order) + 1
      ins == {<<>>} \cup {<<a>> : a \in pool} \cup BothOutputs(g)
      outs == {<<OutNames[p][1]>>} \cup (IF BothOutputs(g) # {} THEN {} ELSE {OutNames[p]})
  IN {nd \in [op : OpTypes, inputs : ins, outputs : outs] :
        Len(nd.inputs) # 1 => Len(nd.outputs) = 1}

\* what the probe parse can report as unsupported: nothing, or the first node
ProbeReports(g) == {<<>>, <<g.order[1]>>}

AddProbedNode ==
  /\ phase = "build"
  /\ Len(graph_viewer.order) < MaxNodes
  /\ \E nd \in ProbedNodeChoices(graph_viewer) :
       LET idx == NodeIndexAt(Len(graph_viewer.order) + 1)
       IN graph_viewer' =
            [graph_viewer EXCEPT
               !.order = Append(@, idx),
               !.nodes = [i \in DOMAIN @ \cup {idx} |-> IF i = idx THEN nd ELSE @[i]]]
  /\ UNCHANGED <<hash_order, parse_model, op_counter, result, steps, calls, phase>>
  /\ IdleOthers

LoadProbedGraph ==
  /\ phase = "build"
  /\ graph_viewer.order # <<>>
  /\ \E ins \in DeclaredInputs(graph_viewer) :
     \E reported \in ProbeReports(graph_viewer) :
       /\ graph_viewer' =
            [graph_viewer EXCEPT
               !.inputs = ins,
               !.inputs_including_initializers = ins \o <<"W">>,
               !.outputs = <<graph_viewer.nodes[graph_viewer.order[Len(graph_viewer.order)]].outputs[1]>>]
       /\ parse_model' = [prog_size |-> 1, unsupported_nodes_temp |-> reported]
  /\ phase' = "loaded"
  /\ UNCHANGED <<hash_order, op_counter, result, steps, calls>>
  /\ IdleOthers

NextProbe == AddProbedNode \/ LoadProbedGraph \/ CallGetCapability

SpecProbe == Init /\ [][NextProbe]_vars

(***************************************************************************)
(* The partitioner on its own: GetPartitionedSubgraphs applied to any      *)
(* topological order and any list of unsupported nodes taken from it in    *)
(* order.                                                                  *)
(***************************************************************************)
NodeIndices == 1..MaxOrderLen

Injective(s) == \A i, j \in 1..Len(s) : i # j => s[i] # s[j]

TopologicalOrders ==
  UNION {{s \in [1..n -> NodeIndices] : Injective(s)} : n \in 0..MaxOrderLen}

\* the lists of nodes of order that keep its relative order
SubsequencesOf(order) == {Restrict(order, S) : S \in SUBSET SeqToSet(order)}

IdleCapability ==
  /\ graph_viewer = EmptyGraph
  /\ hash_order = NameOrder
  /\ parse_model = [prog_size |-> 1, unsupported_nodes_temp |-> <<>>]
  /\ op_counter = 0
  /\ result = <<>>
  /\ steps = <<>>
  /\ calls = 0
  /\ phase = "build"

InitPartition ==
  /\ IdleCapability
  /\ topological_order \in TopologicalOrders
  /\ unsupported_nodes \in SubsequencesOf(topological_order)
  /\ mgx_subgraphx = NoClusters
  /\ node_under_test = EmptyGraph
  /\ op_set = {}
  /\ is_supported = NoVerdict
  /\ cluster = <<>>
  /\ cluster_io = NoBoundary
  /\ IdleDispatch

CallGetPartitionedSubgraphs ==
  /\ ~mgx_subgraphx.returned
  /\ mgx_subgraphx' =
       [returned |-> TRUE,
        clusters |-> GetPartitionedSubgraphs(topological_order, unsupported_nodes)]
  /\ UNCHANGED <<topological_order, unsupported_nodes>>
  /\ UNCHANGED capabilityVars
  /\ UNCHANGED oracleVars
  /\ UNCHANGED boundaryVars
  /\ UNCHANGED compileVars
  /\ UNCHANGED dispatchVars

NextPartition == CallGetPartitionedSubgraphs

SpecPartition == InitPartition /\ [][NextPartition]_vars

(***************************************************************************)
(* The classifier on its own: IsNodeSupported applied to one node whose    *)
(* slots carry any element type (or none), under any supported-op set.     *)
(***************************************************************************)
SlotTypes == ElemTypes \cup {NoTypeProto}

InSlotNames == <<"i1", "i2", "i3">>
OutSlotName == "o1"
ClassifiedIndex == NodeIndexAt(2)

\* op types and op sets the classifier is tried on
ClassifiedOps == {"Add", "Relu", "NonZero"}
ClassifiedOpSets == {GetMiGraphXSupportedOps, {"Relu"}}

\* a graph holding the one node: n input slots and one output slot
OneNodeGraph(op, n, types) ==
  [EmptyGraph EXCEPT
     !.order = <<ClassifiedIndex>>,
     !.nodes = [idx \in {ClassifiedIndex} |->
                  [op |-> op, inputs |-> SubSeq(InSlotNames, 1, n),
                   outputs |-> <<OutSlotName>>]],
     !.types = types,
     !.initializers = {}]

InitOracle ==
  /\ IdleCapability
  /\ topological_order = <<>>
  /\ unsupported_nodes = <<>>
  /\ mgx_subgraphx = NoClusters
  /\ \E op \in ClassifiedOps : \E n \in 0..MaxSlots :
     \E types \in [SeqToSet(SubSeq(InSlotNames, 1, n)) \cup {OutSlotName} -> SlotTypes] :
        node_under_test = OneNodeGraph(op, n, types)
  /\ op_set \in ClassifiedOpSets
  /\ is_supported = NoVerdict
  /\ cluster = <<>>
  /\ cluster_io = NoBoundary
  /\ IdleDispatch

CallIsNodeSupported ==
  /\ ~is_supported.returned
  /\ is_supported' =
       [returned |-> TRUE,
        supported |-> IsNodeSupported(op_set, node_under_test, ClassifiedIndex),
        unsupported_nodes_idx |->
          GetUnsupportedNodeIndices(node_under_test).unsupported_nodes_idx]
  /\ UNCHANGED <<node_under_test, op_set>>
  /\ UNCHANGED capabilityVars
  /\ UNCHANGED partitionVars
  /\ UNCHANGED boundaryVars
  /\ UNCHANGED compileVars
  /\ UNCHANGED dispatchVars

NextOracle == CallIsNodeSupported

SpecOracle == InitOracle /\ [][NextOracle]_vars

(***************************************************************************)
(* The boundary resolver on its own: GetInputsOutputsOfSubgraph applied to *)
(* any run of supported nodes of a loaded graph, with the required         *)
(* initializers GetUnsupportedNodeIndices collects for that graph.         *)
(***************************************************************************)
\* the non-empty contiguous runs of the topological order
ContiguousRuns(order) ==
  {SubSeq(order, i, j) : i \in 1..Len(order), j \in 1..Len(order)} \ {<<>>}

CallGetInputsOutputsOfSubgraph ==
  /\ phase = "loaded"
  /\ ~cluster_io.returned
  /\ \E nodes \in ContiguousRuns(graph_viewer.order) :
       /\ \A i \in 1..Len(nodes) :
             IsNodeSupported(GetMiGraphXSupportedOps, graph_viewer, nodes[i])
       /\ cluster' = nodes
       /\ LET io == GetInputsOutputsOfSubgraph(
                      graph_viewer, nodes,
                      GetUnsupportedNodeIndices(graph_viewer).mgx_required_initializers)
          IN cluster_io' = [returned |-> TRUE, nodes_inputs |-> io.nodes_inputs,
                            nodes_outputs |-> io.nodes_outputs]
  /\ UNCHANGED capabilityVars
  /\ UNCHANGED partitionVars
  /\ UNCHANGED oracleVars
  /\ UNCHANGED compileVars
  /\ UNCHANGED dispatchVars

NextBoundary == AddNode \/ LoadGraph \/ CallGetInputsOutputsOfSubgraph

SpecBoundary == Init /\ [][NextBoundary]_vars

(***************************************************************************)
(* Compile.  A fused node is its name, its input and output defs and its   *)
(* function body (none, or the body whose parse gives a program); a        *)
(* program is its parameter-shape map, in the iteration order              *)
(* get_parameter_shapes() has, each parameter with its element type and    *)
(* its dimensions.                                                         *)
(***************************************************************************)
\* longest list of fused nodes handed to one Compile call
MaxFused == 2

NoFunctionBody == [param_shapes |-> <<>>, present |-> FALSE]

\* a body whose program has the parameters X (float) and output
FloatBody ==
  [param_shapes |-> <<[name |-> "X", type |-> "float_type", lens |-> <<2>>],
                      [name |-> "output", type |-> "float_type", lens |-> <<2, 2>>]>>,
   present |-> TRUE]

\* a body whose program has the parameters scratch, X (int64) and output
ScratchBody ==
  [param_shapes |-> <<[name |-> "scratch", type |-> "int8_type", lens |-> <<8>>],
                      [name |-> "X", type |-> "int64_type", lens |-> <<2>>],
                      [name |-> "output", type |-> "int64_type", lens |-> <<2, 2>>]>>,
   present |-> TRUE]

FunctionBodies == {NoFunctionBody, FloatBody, ScratchBody}

\* the fused node GetCapability's n-th cluster becomes
FusedNode(n, body) ==
  [name |-> MetaDefName(n), input_defs |-> <<"X">>, output_defs |-> <<"a1">>,
   function_body |-> body]

FusedNodeLists ==
  UNION {{[i \in 1..n |-> FusedNode(i, bodies[i])] : bodies \in [1..n -> FunctionBodies]} :
           n \in 1..MaxFused}

\* the key of the entry Compile adds to output_index_map by hand
OutputIndexKey == 99999

\* GetModelProtoFromFusedNode without the ORT_ENFORCE on the function body
GetModelProtoFromFusedNode_NoEnforce(fused_node) ==
  [raised |-> FALSE, model_proto |-> fused_node.function_body]

\* GetModelProtoFromFusedNode: raises when the node has no function body
GetModelProtoFromFusedNode(fused_node) ==
  [raised |-> ~fused_node.function_body.present, model_proto |-> fused_node.function_body]

\* migraphx::parse_model followed by prog.compile(t_): the program of the model
ParseAndCompile(model_proto) == [param_shapes |-> model_proto.param_shapes]

\* input_name_index / output_name_index: def name -> position, a later def of
\* the same name overwriting an earlier one
NameIndex(defs) ==
  [name \in SeqToSet(defs) |->
     (CHOOSE i \in 1..Len(defs) :
        defs[i] = name /\ \A j \in (i + 1)..Len(defs) : defs[j] # name) - 1]

\* input_index_map / output_index_map: param_index -> position of the def that
\* has the parameter's name
IndexMap(param_shapes, name_index) ==
  [param_index \in {i - 1 : i \in {j \in 1..Len(param_shapes) :
                                     param_shapes[j].name \in DOMAIN name_index}} |->
     name_index[param_shapes[param_index + 1].name]]

\* t_.copy_to(migraphx::generate_argument(shape)): a new backend buffer, named
\* by where it was allocated
NoArgument == [allocated_in |-> "nowhere", owner |-> <<>>]
ScratchOf(node_name) == [allocated_in |-> "Compile", owner |-> node_name]

\* the body of Compile's loop for one fused node, on the provider p
CompileNode(fused_node, prog, p) ==
  LET input_name_index == NameIndex(fused_node.input_defs)
      output_name_index == NameIndex(fused_node.output_defs)
      param_shapes == prog.param_shapes
      input_index_map == IndexMap(param_shapes, input_name_index)
      output_index_map ==
        [k \in DOMAIN IndexMap(param_shapes, output_name_index) \cup {OutputIndexKey} |->
           IF k = OutputIndexKey
           THEN output_name_index[UnorderedIter(DOMAIN output_name_index)[1]]
           ELSE IndexMap(param_shapes, output_name_index)[k]]
      has_scratch == \E i \in 1..Len(param_shapes) : param_shapes[i].name = "scratch"
      name == fused_node.name
      Put(map, value) == [n \in DOMAIN map \cup {name} |-> IF n = name THEN value ELSE map[n]]
  IN [p EXCEPT
        !.parse_calls = Append(@, name),
        !.map_progs_ = Put(@, prog),
        !.map_scratches_ = IF has_scratch THEN Put(@, ScratchOf(name)) ELSE @,
        !.map_input_index_ = Put(@, input_index_map),
        !.map_output_index_ = Put(@, output_index_map),
        !.node_compute_funcs = Append(@, name)]

\* Compile(fused_nodes, node_compute_funcs): the loop over the fused nodes
RECURSIVE CompileLoop(_, _)
CompileLoop(nodes, p) ==
  IF nodes = <<>> THEN [p EXCEPT !.status = "OK"]
  ELSE LET model == GetModelProtoFromFusedNode(Head(nodes))
       IN IF model.raised THEN [p EXCEPT !.status = "raised"]
          ELSE CompileLoop(Tail(nodes),
                           CompileNode(Head(nodes), ParseAndCompile(model.model_proto), p))

(***************************************************************************)
(* The execution state and compute_func.                                   *)
(***************************************************************************)
\* number of caller threads
MaxThreads == 2
\* largest number of compute_func calls in one behaviour
MaxDispatchCalls == 3

Threads == 1..MaxThreads

\* element types the runtime tensors of a call are drawn from
RuntimeTypes == {"FLOAT", "INT64", "BOOL"}

\* get_migraphx_type(type, mgx_type): the value returned and mgx_type after
get_migraphx_type(type) ==
  CASE type = "FLOAT16" -> [returns |-> TRUE, mgx_type |-> "half_type"]
    [] type = "FLOAT" -> [returns |-> TRUE, mgx_type |-> "float_type"]
    [] type = "DOUBLE" -> [returns |-> TRUE, mgx_type |-> "double_type"]
    [] type = "INT8" -> [returns |-> TRUE, mgx_type |-> "int8_type"]
    [] type = "INT16" -> [returns |-> TRUE, mgx_type |-> "int16_type"]
    [] type = "INT32" -> [returns |-> TRUE, mgx_type |-> "int32_type"]
    [] type = "INT64" -> [returns |-> TRUE, mgx_type |-> "int64_type"]
    [] type = "UINT8" -> [returns |-> TRUE, mgx_type |-> "uint8_type"]
    [] type = "UINT16" -> [returns |-> TRUE, mgx_type |-> "uint16_type"]
    [] type = "UINT32" -> [returns |-> TRUE, mgx_type |-> "uint32_type"]
    [] type = "UINT64" -> [returns |-> TRUE, mgx_type |-> "uint64_type"]
    [] OTHER -> [returns |-> FALSE, mgx_type |-> "float_type"]

\* the address of the provider's mutex member
mgx_mu_ == <<"mgx_mu_">>
NoMutex == <<>>

\* create_state_func with a mutex of its own for every state
create_state_func_OwnMutex(node_name) ==
  [prog |-> map_progs_[node_name],
   scratch |-> IF node_name \in DOMAIN map_scratches_ THEN map_scratches_[node_name]
               ELSE NoArgument,
   input_indexes |-> map_input_index_[node_name],
   output_indexes |-> map_output_index_[node_name],
   mgx_mu_ptr |-> node_name]

\* create_state_func: the MiGraphXFuncState of the fused node node_name
create_state_func(node_name) ==
  [prog |-> map_progs_[node_name],
   scratch |-> IF node_name \in DOMAIN map_scratches_ THEN map_scratches_[node_name]
               ELSE NoArgument,
   input_indexes |-> map_input_index_[node_name],
   output_indexes |-> map_output_index_[node_name],
   mgx_mu_ptr |-> mgx_mu_]

\* a binding of the parameter map m
InputBinding(index) == [kind |-> "input", index |-> index, buffer |-> NoArgument]
OutputBinding(index) == [kind |-> "output", index |-> index, buffer |-> NoArgument]
BufferBinding(buffer) == [kind |-> "buffer", index |-> 0, buffer |-> buffer]

\* what the third loop of compute_func binds to a parameter not in m yet
ScratchBinding(mgx_state) ==
  BufferBinding([allocated_in |-> "compute_func", owner |-> <<>>])

\* BindParameters without the third loop: a parameter that is neither bound
\* to a runtime input nor the output gets no binding
BindParameters_NoScratchLoop(mgx_state, tensor_types) ==
  LET param_shapes == mgx_state.prog.param_shapes
      map_input_index == mgx_state.input_indexes
      map_output_index == mgx_state.output_indexes
      IsInput(i) == (i - 1) \in DOMAIN map_input_index
      mgx_type(i) == get_migraphx_type(tensor_types[map_input_index[i - 1] + 1]).mgx_type
      PositionOf(name) == CHOOSE i \in 1..Len(param_shapes) : param_shapes[i].name = name
      output_index == map_output_index[CHOOSE k \in DOMAIN map_output_index : TRUE]
  IN [raised |-> \E i \in 1..Len(param_shapes) :
                    IsInput(i) /\ mgx_type(i) # param_shapes[i].type,
      output_tensors |->
        [i \in 1..Cardinality({j \in 1..Len(param_shapes) : param_shapes[j].name = "output"}) |->
           [index |-> output_index, dims |-> param_shapes[PositionOf("output")].lens]],
      m |-> [name \in {param_shapes[i].name :
                         i \in {j \in 1..Len(param_shapes) :
                                  IsInput(j) \/ param_shapes[j].name = "output"}} |->
               IF name = "output"
               THEN OutputBinding(output_index)
               ELSE InputBinding(map_input_index[PositionOf(name) - 1])]]

\* BindParameters with the output tensor requested at the position the
\* parameter "output" has in param_shapes
BindParameters_OutputAtParamIndex(mgx_state, tensor_types) ==
  LET param_shapes == mgx_state.prog.param_shapes
      map_input_index == mgx_state.input_indexes
      IsInput(i) == (i - 1) \in DOMAIN map_input_index
      mgx_type(i) == get_migraphx_type(tensor_types[map_input_index[i - 1] + 1]).mgx_type
      PositionOf(name) == CHOOSE i \in 1..Len(param_shapes) : param_shapes[i].name = name
      output_index == PositionOf("output") - 1
  IN [raised |-> \E i \in 1..Len(param_shapes) :
                    IsInput(i) /\ mgx_type(i) # param_shapes[i].type,
      output_tensors |->
        [i \in 1..Cardinality({j \in 1..Len(param_shapes) : param_shapes[j].name = "output"}) |->
           [index |-> output_index, dims |-> param_shapes[PositionOf("output")].lens]],
      m |-> [name \in {param_shapes[i].name : i \in 1..Len(param_shapes)} |->
               IF name = "output"
               THEN OutputBinding(output_index)
               ELSE IF IsInput(PositionOf(name))
                    THEN InputBinding(map_input_index[PositionOf(name) - 1])
                    ELSE ScratchBinding(mgx_state)]]

\* the three loops of compute_func over its copy param_shapes of the
\* parameter-shape map, for runtime tensors of the element types
\* tensor_types: whether MIGRAPHX_THROW is reached, the output tensors
\* requested with KernelContext_GetOutput, and m
BindLoops(mgx_state, param_shapes, tensor_types) ==
  LET map_input_index == mgx_state.input_indexes
      map_output_index == mgx_state.output_indexes
      IsInput(i) == (i - 1) \in DOMAIN map_input_index
      mgx_type(i) == get_migraphx_type(tensor_types[map_input_index[i - 1] + 1]).mgx_type
      PositionOf(name) == CHOOSE i \in 1..Len(param_shapes) : param_shapes[i].name = name
      output_index == map_output_index[CHOOSE k \in DOMAIN map_output_index : TRUE]
  IN [raised |-> \E i \in 1..Len(param_shapes) :
                    IsInput(i) /\ mgx_type(i) # param_shapes[i].type,
      output_tensors |->
        [i \in 1..Cardinality({j \in 1..Len(param_shapes) : param_shapes[j].name = "output"}) |->
           [index |-> output_index, dims |-> param_shapes[PositionOf("output")].lens]],
      m |-> [name \in {param_shapes[i].name : i \in 1..Len(param_shapes)} |->
               IF name = "output"
               THEN OutputBinding(output_index)
               ELSE IF IsInput(PositionOf(name))
                    THEN InputBinding(map_input_index[PositionOf(name) - 1])
                    ELSE ScratchBinding(mgx_state)]]

\* BindParameters with param_shapes iterated from the last parameter to the
\* first, unlike the iteration of Compile
BindParameters_ReversedIteration(mgx_state, tensor_types) ==
  BindLoops(mgx_state, Reverse(mgx_state.prog.param_shapes), tensor_types)

\* compute_func up to the lock: param_shapes = prog.get_parameter_shapes(),
\* then the three loops
BindParameters(mgx_state, tensor_types) ==
  BindLoops(mgx_state, mgx_state.prog.param_shapes, tensor_types)

NoFrame == [node_name |-> <<>>, tensor_types |-> <<>>, output_tensors |-> <<>>, m |-> <<>>]

(***************************************************************************)
(* Actions of the dispatch pipeline: the host calls Compile on a list of   *)
(* fused nodes, creates the execution state of every compiled node, then   *)
(* caller threads run compute_func on the states.  A compute_func call is  *)
(* three steps: the binding loops (thread-local), the acquisition of the   *)
(* mutex (prog.eval starts), the end of prog.eval (the lock_guard          *)
(* releases the mutex and the call returns).                               *)
(***************************************************************************)
IdleGraphSide ==
  /\ UNCHANGED capabilityVars
  /\ UNCHANGED partitionVars
  /\ UNCHANGED oracleVars
  /\ UNCHANGED boundaryVars

InitDispatch ==
  /\ IdleCapability
  /\ topological_order = <<>>
  /\ unsupported_nodes = <<>>
  /\ mgx_subgraphx = NoClusters
  /\ node_under_test = EmptyGraph
  /\ op_set = {}
  /\ is_supported = NoVerdict
  /\ cluster = <<>>
  /\ cluster_io = NoBoundary
  /\ fused_nodes \in FusedNodeLists
  /\ compile_status = "none"
  /\ map_progs_ = <<>>
  /\ map_scratches_ = <<>>
  /\ map_input_index_ = <<>>
  /\ map_output_index_ = <<>>
  /\ node_compute_funcs = <<>>
  /\ parse_calls = <<>>
  /\ func_states = <<>>
  /\ pc = [t \in Threads |-> "idle"]
  /\ frame = [t \in Threads |-> NoFrame]
  /\ lock = [t \in Threads |-> NoMutex]
  /\ inference_calls = 0

Compile ==
  /\ compile_status = "none"
  /\ LET p == CompileLoop(fused_nodes,
                          [status |-> "none", parse_calls |-> parse_calls,
                           map_progs_ |-> map_progs_, map_scratches_ |-> map_scratches_,
                           map_input_index_ |-> map_input_index_,
                           map_output_index_ |-> map_output_index_,
                           node_compute_funcs |-> node_compute_funcs])
     IN /\ compile_status' = p.status
        /\ parse_calls' = p.parse_calls
        /\ map_progs_' = p.map_progs_
        /\ map_scratches_' = p.map_scratches_
        /\ map_input_index_' = p.map_input_index_
        /\ map_output_index_' = p.map_output_index_
        /\ node_compute_funcs' = p.node_compute_funcs
  /\ UNCHANGED fused_nodes
  /\ UNCHANGED dispatchVars
  /\ IdleGraphSide

\* the host creates the state of a compiled node, once
CreateState(node_name) ==
  /\ compile_status = "OK"
  /\ node_name \in SeqToSet(node_compute_funcs)
  /\ node_name \notin DOMAIN func_states
  /\ func_states' = [n \in DOMAIN func_states \cup {node_name} |->
                       IF n = node_name THEN create_state_func(node_name) ELSE func_states[n]]
  /\ UNCHANGED <<pc, frame, lock, inference_calls>>
  /\ UNCHANGED compileVars
  /\ IdleGraphSide

\* the fused node of the given name
FusedNodeNamed(node_name) ==
  fused_nodes[CHOOSE i \in 1..Len(fused_nodes) : fused_nodes[i].name = node_name]

\* the element types of the runtime tensors of a call: one tensor for every
\* input def of the fused node
InputTensorTypes(node_name) ==
  [1..Len(FusedNodeNamed(node_name).input_defs) -> RuntimeTypes]

\* ComputeBind with the mutex taken before the binding loops and not
\* released when MIGRAPHX_THROW leaves the call
ComputeBind_LocksFirst(t) ==
  /\ compile_status = "OK"
  /\ DOMAIN func_states = SeqToSet(node_compute_funcs)
  /\ pc[t] \in {"idle", "done", "failed"}
  /\ inference_calls < MaxDispatchCalls
  /\ \E node_name \in DOMAIN func_states : \E tensor_types \in InputTensorTypes(node_name) :
       LET bound == BindParameters(func_states[node_name], tensor_types)
       IN /\ pc' = [pc EXCEPT ![t] = IF bound.raised THEN "failed" ELSE "lock"]
          /\ lock' = [lock EXCEPT ![t] = IF bound.raised
                                         THEN func_states[node_name].mgx_mu_ptr ELSE @]
          /\ frame' = [frame EXCEPT ![t] =
                         [node_name |-> node_name, tensor_types |-> tensor_types,
                          output_tensors |-> IF bound.raised THEN <<>> ELSE bound.output_tensors,
                          m |-> IF bound.raised THEN <<>> ELSE bound.m]]
  /\ inference_calls' = inference_calls + 1
  /\ UNCHANGED func_states
  /\ UNCHANGED compileVars
  /\ IdleGraphSide

\* a thread enters compute_func on a state and runs the binding loops
ComputeBind(t) ==
  /\ compile_status = "OK"
  /\ DOMAIN func_states = SeqToSet(node_compute_funcs)
  /\ pc[t] \in {"idle", "done", "failed"}
  /\ inference_calls < MaxDispatchCalls
  /\ \E node_name \in DOMAIN func_states : \E tensor_types \in InputTensorTypes(node_name) :
       LET bound == BindParameters(func_states[node_name], tensor_types)
       IN /\ pc' = [pc EXCEPT ![t] = IF bound.raised THEN "failed" ELSE "lock"]
          /\ frame' = [frame EXCEPT ![t] =
                         [node_name |-> node_name, tensor_types |-> tensor_types,
                          output_tensors |-> IF bound.raised THEN <<>> ELSE bound.output_tensors,
                          m |-> IF bound.raised THEN <<>> ELSE bound.m]]
  /\ inference_calls' = inference_calls + 1
  /\ UNCHANGED <<func_states, lock>>
  /\ UNCHANGED compileVars
  /\ IdleGraphSide

\* std::lock_guard<OrtMutex> lock(*(mgx_state->mgx_mu_ptr)); prog.eval(m) starts
Acquire(t) ==
  /\ pc[t] = "lock"
  /\ LET mu == func_states[frame[t].node_name].mgx_mu_ptr
     IN /\ \A u \in Threads : lock[u] # mu
        /\ lock' = [lock EXCEPT ![t] = mu]
  /\ pc' = [pc EXCEPT ![t] = "eval"]
  /\ UNCHANGED <<func_states, frame, inference_calls>>
  /\ UNCHANGED compileVars
  /\ IdleGraphSide

\* Release with a mutex that is locked by hand and never unlocked
Release_KeepsLock(t) ==
  /\ pc[t] = "eval"
  /\ pc' = [pc EXCEPT ![t] = "done"]
  /\ frame' = [frame EXCEPT ![t] = NoFrame]
  /\ UNCHANGED <<func_states, lock, inference_calls>>
  /\ UNCHANGED compileVars
  /\ IdleGraphSide

\* prog.eval(m) ends, the lock_guard goes out of scope, the call returns OK
Release(t) ==
  /\ pc[t] = "eval"
  /\ lock' = [lock EXCEPT ![t] = NoMutex]
  /\ pc' = [pc EXCEPT ![t] = "done"]
  /\ frame' = [frame EXCEPT ![t] = NoFrame]
  /\ UNCHANGED <<func_states, inference_calls>>
  /\ UNCHANGED compileVars
  /\ IdleGraphSide

NextDispatch ==
  \/ Compile
  \/ \E i \in 1..MaxFused : CreateState(MetaDefName(i))
  \/ \E t \in Threads : ComputeBind(t)
  \/ \E t \in Threads : Acquire(t)
  \/ \E t \in Threads : Release(t)

SpecDispatch == InitDispatch /\ [][NextDispatch]_vars

\* the scheduler runs every thread that can take a step, and every prog.eval ends
SpecDispatchFair ==
  /\ SpecDispatch
  /\ \A t \in Threads : WF_vars(Acquire(t)) /\ WF_vars(Release(t))

(***************************************************************************)
(* The dispatch pipeline on one fused node with two inputs, X and Y, and   *)
(* one or two outputs, whose program has the parameters X, Y and output in *)
(* any iteration order.                                                    *)
(***************************************************************************)
\* the parameters of the program of a two-input cluster
BindingParams ==
  {[name |-> "X", type |-> "float_type", lens |-> <<2>>],
   [name |-> "Y", type |-> "int64_type", lens |-> <<3>>],
   [name |-> "output", type |-> "float_type", lens |-> <<2, 3>>]}

\* get_parameter_shapes() of that program, in every iteration order
BindingBodies ==
  {[param_shapes |-> order, present |-> TRUE] :
     order \in {o \in [1..Cardinality(BindingParams) -> BindingParams] :
                  \A i, j \in DOMAIN o : i # j => o[i] # o[j]}}

BindingNodeLists ==
  {<<[name |-> MetaDefName(1), input_defs |-> <<"X", "Y">>, output_defs |-> outs,
      function_body |-> body]>> :
     outs \in {<<"a1">>, <<"a1", "a2">>}, body \in BindingBodies}

InitBinding ==
  /\ graph_viewer = EmptyGraph
  /\ hash_order \in HashOrders
  /\ parse_model = [prog_size |-> 1, unsupported_nodes_temp |-> <<>>]
  /\ op_counter = 0
  /\ result = <<>>
  /\ steps = <<>>
  /\ calls = 0
  /\ phase = "build"
  /\ topological_order = <<>>
  /\ unsupported_nodes = <<>>
  /\ mgx_subgraphx = NoClusters
  /\ node_under_test = EmptyGraph
  /\ op_set = {}
  /\ is_supported = NoVerdict
  /\ cluster = <<>>
  /\ cluster_io = NoBoundary
  /\ fused_nodes \in BindingNodeLists
  /\ compile_status = "none"
  /\ map_progs_ = <<>>
  /\ map_scratches_ = <<>>
  /\ map_input_index_ = <<>>
  /\ map_output_index_ = <<>>
  /\ node_compute_funcs = <<>>
  /\ parse_calls = <<>>
  /\ func_states = <<>>
  /\ pc = [t \in Threads |-> "idle"]
  /\ frame = [t \in Threads |-> NoFrame]
  /\ lock = [t \in Threads |-> NoMutex]
  /\ inference_calls = 0

SpecBinding == InitBinding /\ [][NextDispatch]_vars

(***************************************************************************)
(* Properties of the partitioner (SpecPartition).                          *)
(***************************************************************************)
\* position of a node in the topological order
PositionIn(order, node_idx) == CHOOSE i \in 1..Len(order) : order[i] = node_idx

\* C1: for unsupported nodes at positions u1<...<uk of the order,
\* GetPartitionedSubgraphs returns at most k+1 clusters, and the cluster node
\* ids together with the unsupported node ids exactly partition the node set:
\* every node is unsupported or in exactly one cluster, never both, none omitted.
C1_ClustersPartitionNodes ==
  mgx_subgraphx.returned =>
    LET clusters == mgx_subgraphx.clusters
        clustered == Flatten(clusters)
    IN /\ Len(clusters) <= Len(unsupported_nodes) + 1
       /\ NoDuplicates(clustered \o unsupported_nodes)
       /\ SeqToSet(clustered) \cup SeqToSet(unsupported_nodes) = SeqToSet(topological_order)
       /\ SeqToSet(clustered) \cap SeqToSet(unsupported_nodes) = {}

\* a run with two unsupported nodes that cut the order into three clusters
C1_Witness ==
  /\ mgx_subgraphx.returned
  /\ Len(unsupported_nodes) = 2
  /\ Len(mgx_subgraphx.clusters) = 3

\* C2: every cluster is a non-empty contiguous run of the order lying strictly
\* between two consecutive unsupported nodes (or the start/end of the order),
\* clusters come in topological order, and no cluster spans an unsupported
\* node; [A, B, C] with only B unsupported yields exactly {A} and {C}.
C2_ClustersAreMaximalRuns ==
  mgx_subgraphx.returned =>
    LET clusters == mgx_subgraphx.clusters
        order == topological_order
        unsup == SeqToSet(unsupported_nodes)
        first(c) == PositionIn(order, c[1])
        last(c) == PositionIn(order, c[Len(c)])
    IN /\ \A k \in 1..Len(clusters) :
            LET c == clusters[k]
            IN /\ c # <<>>
               /\ c = SubSeq(order, first(c), last(c))
               /\ SeqToSet(c) \cap unsup = {}
               /\ first(c) = 1 \/ order[first(c) - 1] \in unsup
               /\ last(c) = Len(order) \/ order[last(c) + 1] \in unsup
       /\ \A k \in 1..(Len(clusters) - 1) : last(clusters[k]) < first(clusters[k + 1])
       /\ (Len(order) = 3 /\ unsupported_nodes = <<order[2]>>)
            => clusters = << <<order[1]>>, <<order[3]>> >>

\* the scenario [A, B, C] with only B unsupported has been partitioned
C2_Witness ==
  /\ mgx_subgraphx.returned
  /\ Len(topological_order) = 3
  /\ unsupported_nodes = <<topological_order[2]>>
  /\ Len(mgx_subgraphx.clusters) = 2

(***************************************************************************)
(* Properties of GetCapability (Spec).  They are stated on the graph and   *)
(* the returned capabilities, with the terms of the specification defined  *)
(* here on the graph alone.                                                *)
(***************************************************************************)
NumericElemTypes ==
  {"FLOAT16", "FLOAT", "DOUBLE", "INT8", "INT16", "INT32", "INT64",
   "UINT8", "UINT16", "UINT32", "UINT64"}

\* a node the backend can take: numeric slots and a supported op type
Offloadable(g, idx) ==
  /\ \A name \in SeqToSet(g.nodes[idx].inputs) \cup SeqToSet(g.nodes[idx].outputs) :
        g.types[name] \in NumericElemTypes
  /\ g.nodes[idx].op \in GetMiGraphXSupportedOps

EveryNodeSupported(g) == \A idx \in DOMAIN g.nodes : Offloadable(g, idx)

\* the initializers some supported node reads
RequiredConstants(g) ==
  {name \in g.initializers :
     \E idx \in DOMAIN g.nodes : Offloadable(g, idx) /\ name \in SeqToSet(g.nodes[idx].inputs)}

\* the graph passes every test GetCapability makes before it classifies the
\* nodes: not a nested subgraph, no externally stored initializer, at most one
\* output and no dynamic-shape input in the rebuilt model, a non-empty probe
\* program
FeasibilityGatePasses ==
  /\ ~graph_viewer.is_subgraph
  /\ graph_viewer.initializers \cap graph_viewer.external_initializers = {}
  /\ NumModelOutputs(graph_viewer) <= 1
  /\ SeqToSet(ModelInputNames(graph_viewer)) \cap graph_viewer.dynamic_shape = {}
  /\ parse_model.prog_size # 0

Returned == phase = "loaded" /\ calls >= 1

\* what the claim says of the result when every node is supported
WholeGraphCluster ==
  /\ Len(result) = 1
  /\ result[1].nodes = graph_viewer.order
  /\ LET n == Len(graph_viewer.inputs)
         rest == SubSeq(result[1].inputs, n + 1, Len(result[1].inputs))
     IN /\ Len(result[1].inputs) >= n
        /\ SubSeq(result[1].inputs, 1, n) = graph_viewer.inputs
        /\ NoDuplicates(rest)
        /\ SeqToSet(rest) = RequiredConstants(graph_viewer)
  /\ result[1].outputs = graph_viewer.outputs

\* C3 as stated: if every node is supported and the declared-input list is
\* non-empty, GetCapability returns exactly one cluster: all nodes, inputs =
\* declared inputs followed by the required constants, outputs = declared outputs.
C3_Original ==
  (Returned /\ EveryNodeSupported(graph_viewer) /\ graph_viewer.inputs # <<>>)
    => WholeGraphCluster

\* C3 (amended): the same, for a graph that passes the feasibility gate (not a
\* nested subgraph, no externally stored initializer, at most one output and
\* only static input shapes in the rebuilt model, non-empty probe program).
C3_WholeGraphCluster ==
  (Returned /\ FeasibilityGatePasses /\ EveryNodeSupported(graph_viewer)
     /\ graph_viewer.inputs # <<>>)
    => WholeGraphCluster

\* a fully supported graph of MaxNodes nodes reading both initializers was offloaded
C3_Witness ==
  /\ Returned
  /\ FeasibilityGatePasses
  /\ EveryNodeSupported(graph_viewer)
  /\ graph_viewer.inputs # <<>>
  /\ Len(graph_viewer.order) = MaxNodes
  /\ Cardinality(RequiredConstants(graph_viewer)) = 2
  /\ Len(result) = 1

\* C4: if the declared-input list is empty, GetCapability returns no clusters,
\* whether or not the graph contains unsupported nodes.
C4_NoDeclaredInputsNoClusters ==
  (Returned /\ graph_viewer.inputs = <<>>) => result = <<>>

\* names produced by the nodes of a cluster
ProducedIn(g, nodes) == UNION {SeqToSet(g.nodes[idx].outputs) : idx \in SeqToSet(nodes)}

\* names read by the nodes of a cluster
ReadIn(g, nodes) == UNION {SeqToSet(g.nodes[idx].inputs) : idx \in SeqToSet(nodes)}

\* a name with a consumer outside the cluster
ReadOutside(g, nodes, name) ==
  \E idx \in DOMAIN g.nodes : idx \notin SeqToSet(nodes) /\ name \in SeqToSet(g.nodes[idx].inputs)

\* GetCapability took the partitioned path: the clusters in result come from
\* GetInputsOutputsOfSubgraph
PartitionedPath ==
  Returned /\ ~EveryNodeSupported(graph_viewer) /\ result # <<>>

FirstSeenInputs(g, nodes) ==
  FirstSeen(Flatten([i \in 1..Len(nodes) |-> g.nodes[nodes[i]].inputs]))

RuntimeGroup(g, nodes) ==
  SelectSeq(FirstSeenInputs(g, nodes),
            LAMBDA name : name \notin g.initializers /\ name \notin ProducedIn(g, nodes))

ConstantGroup(g, nodes) ==
  SelectSeq(FirstSeenInputs(g, nodes), LAMBDA name : name \in g.initializers)

Unnamed(capability) ==
  [nodes |-> capability.nodes, inputs |-> capability.inputs, outputs |-> capability.outputs]

UnnamedResult(r) == [k \in 1..Len(r) |-> Unnamed(r[k])]

C9_NoDuplicateNames ==
  Returned =>
    \A k \in 1..Len(result) :
       NoDuplicates(result[k].inputs) /\ NoDuplicates(result[k].outputs)

\* a partitioned cluster whose node reads the same name in two slots
C9_Witness ==
  /\ PartitionedPath
  /\ \E k \in 1..Len(result) : \E idx \in SeqToSet(result[k].nodes) :
       /\ Len(graph_viewer.nodes[idx].inputs) = 2
       /\ graph_viewer.nodes[idx].inputs[1] = graph_viewer.nodes[idx].inputs[2]
       /\ Len(result[k].inputs) = 1

(***************************************************************************)
(* Properties of the classifier (SpecOracle).                              *)
(***************************************************************************)
\* every input and output slot of the classified node has a numeric element type
SlotsNumeric ==
  LET node == node_under_test.nodes[ClassifiedIndex]
  IN \A name \in SeqToSet(node.inputs) \cup SeqToSet(node.outputs) :
        node_under_test.types[name] \in NumericElemTypes

\* C10: IsNodeSupported returns true iff every input and output slot of the
\* node has an element type among fp16/fp32/fp64/(u)int8/16/32/64 and the
\* node's op type is in the supported-op set; a slot with a non-numeric or
\* missing type puts the node in the unsupported list whatever its op type;
\* the result is a function of the node and the op set alone.
C10_SupportedIffNumericAndInOpSet ==
  is_supported.returned =>
    /\ is_supported.supported =
         (SlotsNumeric /\ node_under_test.nodes[ClassifiedIndex].op \in op_set)
    /\ ~SlotsNumeric => is_supported.unsupported_nodes_idx = <<ClassifiedIndex>>

\* a node of a supported op type with a slot of no type was classified unsupported
C10_Witness ==
  /\ is_supported.returned
  /\ node_under_test.nodes[ClassifiedIndex].op \in op_set
  /\ node_under_test.nodes[ClassifiedIndex].op \in GetMiGraphXSupportedOps
  /\ \E name \in SeqToSet(node_under_test.nodes[ClassifiedIndex].inputs) :
        node_under_test.types[name] = NoTypeProto
  /\ ~is_supported.supported
  /\ is_supported.unsupported_nodes_idx = <<ClassifiedIndex>>

(***************************************************************************)
(* Properties of the feasibility tests and of the generated names (Spec).  *)
(***************************************************************************)
\* the steps after the tests: support scan and partitioning
ScanSteps == {"GetUnsupportedNodeIndices", "GetPartitionedSubgraphs"}

\* some declared graph input has a dimension without a static value
HasDynamicInput == SeqToSet(graph_viewer.inputs) \cap graph_viewer.dynamic_shape # {}

C12_ExternalInitializerDeclines ==
  (Returned /\ graph_viewer.initializers \cap graph_viewer.external_initializers # {})
    => /\ result = <<>>
       /\ SeqToSet(steps) \cap ({"RebuildModel", "parse_model"} \cup ScanSteps) = {}

\* a fully supported graph with an external initializer was declined at the test
C12_Witness ==
  /\ Returned
  /\ graph_viewer.initializers \cap graph_viewer.external_initializers # {}
  /\ EveryNodeSupported(graph_viewer)
  /\ graph_viewer.inputs # <<>>
  /\ steps = <<"IsSubgraph", "ExternalInitializer">>
  /\ result = <<>>

\* C13: across GetCapability calls every emitted cluster is named MIGraphX_<n>
\* with n above the n of every cluster emitted before (the names of one call
\* continue from the counter, which ends at the last n), and the counter
\* advances by exactly the number of clusters emitted.
C13_NamesStrictlyIncrease ==
  [][calls' = calls + 1 =>
       /\ \A k \in 1..Len(result') : result'[k].name = <<"MIGraphX_", op_counter + k>>
       /\ op_counter' = op_counter + Len(result')
       /\ \A k \in 1..Len(result) : result[k].name[2] <= op_counter]_vars

\* a second call emitted a cluster, named after the one of the first call
C13_Witness ==
  /\ phase = "loaded"
  /\ calls = 2
  /\ op_counter = 2
  /\ Len(result) = 1
  /\ result[1].name = <<"MIGraphX_", 2>>

\* C20: if the probe parse of the serialized graph yields an empty program,
\* GetCapability returns an empty cluster list and neither the support scan
\* nor the partitioning is performed.
C20_EmptyProbeDeclines ==
  (Returned /\ "parse_model" \in SeqToSet(steps) /\ parse_model.prog_size = 0)
    => /\ result = <<>>
       /\ SeqToSet(steps) \cap ScanSteps = {}

\* a fully supported graph whose probe program is empty was declined at the probe
C20_Witness ==
  /\ Returned
  /\ parse_model.prog_size = 0
  /\ steps[Len(steps)] = "parse_model"
  /\ EveryNodeSupported(graph_viewer)
  /\ graph_viewer.inputs # <<>>
  /\ result = <<>>

(***************************************************************************)
(* Properties of the boundary resolver (SpecBoundary).                     *)
(***************************************************************************)
\* a constant of the graph: an initializer that is not listed among the
\* graph inputs, or an initializer a supported node reads
IsConstant(g, name) ==
  \/ (name \in g.initializers /\ name \notin SeqToSet(g.inputs_including_initializers))
  \/ name \in RequiredConstants(g)

\* C19: a name is in the input list GetInputsOutputsOfSubgraph computes for a
\* cluster iff some node of the cluster reads it and it is a constant or no
\* node of the cluster produces it; a non-constant name produced inside the
\* cluster is never listed.
C19_InputsAreConstantOrExternal ==
  cluster_io.returned =>
    SeqToSet(cluster_io.nodes_inputs) =
      {name \in ReadIn(graph_viewer, cluster) :
         \/ IsConstant(graph_viewer, name)
         \/ name \notin ProducedIn(graph_viewer, cluster)}

\* a cluster of two nodes, the second reading a name the first produces and a
\* constant: the constant is listed, the produced name is not
C19_Witness ==
  /\ cluster_io.returned
  /\ Len(cluster) = 2
  /\ \E name \in ReadIn(graph_viewer, cluster) \cap ProducedIn(graph_viewer, cluster) :
        name \notin SeqToSet(cluster_io.nodes_inputs)
  /\ \E name \in SeqToSet(cluster_io.nodes_inputs) : IsConstant(graph_viewer, name)

(***************************************************************************)
(* Properties of Compile and of the inference calls (SpecDispatch,         *)
(* SpecDispatchFair).                                                      *)
(***************************************************************************)
\* a call that has passed the binding loops: waiting for the mutex or evaluating
InFlight == {"lock", "eval"}

\* C14: with any number of caller threads running inference calls on any
\* clusters of the provider, at most one thread is inside prog.eval at a time:
\* every execution state refers to the same mutex and every evaluation runs
\* with that mutex held.
C14_EvaluationsAreSerialized ==
  /\ Cardinality({t \in DOMAIN pc : pc[t] = "eval"}) <= 1
  /\ \A n \in DOMAIN func_states : func_states[n].mgx_mu_ptr = mgx_mu_
  /\ \A t \in DOMAIN pc : pc[t] = "eval" => lock[t] = mgx_mu_

\* one thread evaluates a cluster while another, bound to a different cluster,
\* waits for the mutex
C14_Witness ==
  \E t \in DOMAIN pc : \E u \in DOMAIN pc :
     /\ pc[t] = "eval"
     /\ pc[u] = "lock"
     /\ frame[t].node_name # frame[u].node_name

\* C15: two inference calls in flight at the same time on two distinct
\* clusters both complete, under fair scheduling and terminating evaluations;
\* a call holds a mutex exactly while it evaluates.
C15_ConcurrentCallsComplete ==
  /\ [](\A t \in Threads : (lock[t] # NoMutex) <=> (pc[t] = "eval"))
  /\ \A t \in Threads :
        (pc[t] \in InFlight
           /\ \E u \in Threads \ {t} :
                 pc[u] \in InFlight /\ frame[t].node_name # frame[u].node_name)
          ~> (pc[t] = "done")

\* two calls on distinct clusters are both waiting for the mutex
C15_Witness ==
  \E t \in DOMAIN pc : \E u \in DOMAIN pc :
     /\ t # u
     /\ pc[t] = "lock"
     /\ pc[u] = "lock"
     /\ frame[t].node_name # frame[u].node_name

\* the tensor element type each parameter type stands for
ElemTypeOf ==
  [half_type |-> "FLOAT16", float_type |-> "FLOAT", double_type |-> "DOUBLE",
   int8_type |-> "INT8", int16_type |-> "INT16", int32_type |-> "INT32",
   int64_type |-> "INT64", uint8_type |-> "UINT8", uint16_type |-> "UINT16",
   uint32_type |-> "UINT32", uint64_type |-> "UINT64"]

\* the parameters of thread t's call that are bound to a runtime input, as
\* pairs of declared element type and runtime element type
InputTypePairs(t) ==
  LET mgx_state == func_states[frame[t].node_name]
      param_shapes == mgx_state.prog.param_shapes
  IN {<<ElemTypeOf[param_shapes[i].type],
        frame[t].tensor_types[mgx_state.input_indexes[i - 1] + 1]>> :
        i \in {j \in 1..Len(param_shapes) : (j - 1) \in DOMAIN mgx_state.input_indexes}}

\* C16: a call in which the element type of a runtime input differs from the
\* declared type of the parameter bound to it (a runtime type outside the
\* numeric set included) fails, and prog.eval is not attempted: every call
\* that goes on to the evaluation has matching types.
C16_TypeMismatchFails ==
  \A t \in DOMAIN pc :
     pc[t] \in InFlight => \A pair \in InputTypePairs(t) : pair[1] = pair[2]

\* the buffers thread t's call binds to parameters that are neither a runtime
\* input nor the output
BoundBuffers(t) ==
  {frame[t].m[name].buffer : name \in {n \in DOMAIN frame[t].m : frame[t].m[n].kind = "buffer"}}

\* C17: the scratch buffer is allocated once, by Compile, and every
\* evaluation binds that buffer: no call binds a buffer allocated during the
\* call to a parameter that is neither a runtime input nor the output.
C17_ScratchAllocatedOnce ==
  \A t \in DOMAIN pc :
     pc[t] \in InFlight =>
       \A buffer \in BoundBuffers(t) :
          /\ buffer = func_states[frame[t].node_name].scratch
          /\ buffer.allocated_in = "Compile"

\* the fused nodes Compile has dealt with when it stops at the first node
\* without a function body (all of them when there is none)
BeforeFirstMissingBody ==
  LET missing == {i \in 1..Len(fused_nodes) : ~fused_nodes[i].function_body.present}
      stop == IF missing = {} THEN Len(fused_nodes) + 1
              ELSE CHOOSE i \in missing : \A j \in missing : i <= j
  IN [i \in 1..(stop - 1) |-> fused_nodes[i].name]

\* C18: Compile raises for a fused node without function body, before the
\* node is parsed or compiled; no program is stored and no dispatch entry is
\* registered for that node or for any later node of the call.
C18_MissingBodyRaises ==
  (compile_status # "none" /\ Len(BeforeFirstMissingBody) < Len(fused_nodes))
    => /\ compile_status = "raised"
       /\ parse_calls = BeforeFirstMissingBody
       /\ DOMAIN map_progs_ = SeqToSet(BeforeFirstMissingBody)
       /\ node_compute_funcs = BeforeFirstMissingBody

\* Compile raised at a first node without body: the node after it, which has a
\* body, was not compiled
C18_Witness ==
  /\ compile_status = "raised"
  /\ Len(fused_nodes) = 2
  /\ ~fused_nodes[1].function_body.present
  /\ fused_nodes[2].function_body.present
  /\ node_compute_funcs = <<>>
  /\ DOMAIN map_progs_ = {}

(***************************************************************************)
(* Further properties of GetCapability (Spec).                             *)
(***************************************************************************)
\* the positions of the maximal run of supported nodes around position p
RunAround(g, p) ==
  {q \in 1..Len(g.order) :
     \A i \in (IF p <= q THEN p ELSE q)..(IF p <= q THEN q ELSE p) :
        Offloadable(g, g.order[i])}

\* the names the nodes at the positions P read that are constants or that no
\* node at P produces
RunInputNames(g, P) ==
  LET nodes == Restrict(g.order, {g.order[q] : q \in P})
  IN {name \in ReadIn(g, nodes) :
        IsConstant(g, name) \/ name \notin ProducedIn(g, nodes)}

\* the nodes that are members of an emitted cluster
EmittedNodes == UNION {SeqToSet(result[k].nodes) : k \in 1..Len(result)}

\* C23: every cluster GetCapability emits has a non-empty input list; on the
\* partitioned path a run of supported nodes whose input list is empty is
\* dropped (its nodes are in no emitted cluster), and on the whole-graph path
\* nothing is emitted when the declared-input list is empty.
C23_EmittedClustersHaveInputs ==
  Returned =>
    /\ \A k \in 1..Len(result) : result[k].inputs # <<>>
    /\ (~EveryNodeSupported(graph_viewer)) =>
          \A p \in 1..Len(graph_viewer.order) :
             (/\ Offloadable(graph_viewer, graph_viewer.order[p])
              /\ RunInputNames(graph_viewer, RunAround(graph_viewer, p)) = {})
               => graph_viewer.order[p] \notin EmittedNodes
    /\ (EveryNodeSupported(graph_viewer) /\ graph_viewer.inputs = <<>>) => result = <<>>

\* a graph that passed the feasibility gate with an unsupported node and a
\* supported node without input: the run of the supported node was dropped
C23_Witness ==
  /\ Returned
  /\ FeasibilityGatePasses
  /\ ~EveryNodeSupported(graph_viewer)
  /\ \E p \in 1..Len(graph_viewer.order) :
        /\ Offloadable(graph_viewer, graph_viewer.order[p])
        /\ graph_viewer.nodes[graph_viewer.order[p]].inputs = <<>>
        /\ graph_viewer.order[p] \notin EmittedNodes

\* C24: the unsupported-node list GetUnsupportedNodeIndices hands to the
\* partitioner is a subsequence of the topological order (same relative
\* order, no duplicates, every element in the order), so every forward search
\* of GetPartitionedSubgraphs finds its node and the cursor never moves past
\* the end of the order.
C24_UnsupportedListIsSubsequence ==
  (Returned /\ "GetUnsupportedNodeIndices" \in SeqToSet(steps)) =>
    LET order == graph_viewer.order
        unsup == GetUnsupportedNodeIndices(graph_viewer).unsupported_nodes_idx
        its == FindPositions(order, unsup, 1)
    IN /\ NoDuplicates(unsup)
       /\ SeqToSet(unsup) \subseteq SeqToSet(order)
       /\ unsup = Restrict(order, SeqToSet(unsup))
       /\ \A i \in 1..Len(unsup) :
             /\ its[i] <= Len(order)
             /\ order[its[i]] = unsup[i]
             /\ NextCursor(its[i]) <= Len(order) + 1

\* the partitioner ran on a graph whose MaxNodes nodes are all unsupported:
\* the last search ends on the last node and leaves the cursor at the end
C24_Witness ==
  /\ Returned
  /\ "GetPartitionedSubgraphs" \in SeqToSet(steps)
  /\ Len(graph_viewer.order) = MaxNodes
  /\ Len(GetUnsupportedNodeIndices(graph_viewer).unsupported_nodes_idx) = MaxNodes

\* C25: every cluster GetCapability emits for a graph that passed the
\* feasibility gate has exactly one name in its output list.
C25_ClustersHaveOneOutput ==
  (Returned /\ FeasibilityGatePasses) =>
    \A k \in 1..Len(result) : Len(result[k].outputs) = 1

\* C28: when the probe parse returns a non-empty program, the nodes it
\* reports as unsupported have no effect on the result: a node is a member
\* of an emitted cluster iff the static classification (element types,
\* supported-op set) takes it and its run has inputs, whether the probe
\* reported it or not.
C28_ProbeReportHasNoEffect ==
  (Returned /\ FeasibilityGatePasses) =>
    \A p \in 1..Len(graph_viewer.order) :
       graph_viewer.order[p] \in EmittedNodes
         <=> /\ Offloadable(graph_viewer, graph_viewer.order[p])
             /\ IF EveryNodeSupported(graph_viewer)
                THEN graph_viewer.inputs # <<>>
                ELSE RunInputNames(graph_viewer, RunAround(graph_viewer, p)) # {}

\* a node the probe reported as unsupported is a member of an emitted
\* cluster, next to a node the static classification rejects
C28_Witness ==
  /\ Returned
  /\ FeasibilityGatePasses
  /\ ~EveryNodeSupported(graph_viewer)
  /\ \E idx \in SeqToSet(parse_model.unsupported_nodes_temp) : idx \in EmittedNodes

(***************************************************************************)
(* Further properties of the inference calls (SpecDispatch, SpecBinding).  *)
(***************************************************************************)
\* the parameter-shape map of the program thread t's call runs
ParamShapesOf(t) == func_states[frame[t].node_name].prog.param_shapes

\* C27: whenever an inference call invokes prog.eval, the parameter map it
\* passes binds every parameter name of the program's parameter-shape map and
\* no other name.
C27_ParameterMapIsComplete ==
  \A t \in DOMAIN pc :
     pc[t] = "eval" =>
       DOMAIN frame[t].m = {ParamShapesOf(t)[i].name : i \in 1..Len(ParamShapesOf(t))}

\* an evaluation of a program with a scratch parameter: the map binds the
\* input, the output and the scratch parameter
C27_Witness ==
  \E t \in DOMAIN pc :
     /\ pc[t] = "eval"
     /\ DOMAIN frame[t].m = {"scratch", "X", "output"}
     /\ frame[t].m["scratch"].kind = "buffer"

\* the output ordinals of the fused node thread t's call runs
OutputOrdinalsOf(t) == 0..(Len(FusedNodeNamed(frame[t].node_name).output_defs) - 1)

\* the parameter named "output" of the program thread t's call runs
OutputParamOf(t) ==
  ParamShapesOf(t)[CHOOSE i \in 1..Len(ParamShapesOf(t)) : ParamShapesOf(t)[i].name = "output"]

C26_PositionalBindingIsNameConsistent ==
  \A t \in DOMAIN pc :
     pc[t] \in InFlight =>
       LET mgx_state == func_states[frame[t].node_name]
           input_defs == FusedNodeNamed(frame[t].node_name).input_defs
       IN \A param_index \in DOMAIN mgx_state.input_indexes :
             LET ordinal == mgx_state.input_indexes[param_index]
                 name == input_defs[ordinal + 1]
             IN /\ ParamShapesOf(t)[param_index + 1].name = name
                /\ name \in DOMAIN frame[t].m
                /\ frame[t].m[name] = InputBinding(ordinal)

\* an evaluation of a program whose parameter-shape map lists Y before X,
\* the fused node listing X before Y: X is bound to the tensor at ordinal 0
\* and Y to the tensor at ordinal 1
C26_Witness ==
  \E t \in DOMAIN pc :
     /\ pc[t] = "eval"
     /\ FusedNodeNamed(frame[t].node_name).input_defs = <<"X", "Y">>
     /\ \E i, j \in 1..Len(ParamShapesOf(t)) :
           i < j /\ ParamShapesOf(t)[i].name = "Y" /\ ParamShapesOf(t)[j].name = "X"
     /\ frame[t].m["X"] = InputBinding(0)
     /\ frame[t].m["Y"] = InputBinding(1)

\* thread t's call ends in the type-mismatch failure in this step
FailingStep(t) ==
  /\ pc'[t] = "failed"
  /\ <<pc[t], frame[t]>> # <<pc'[t], frame'[t]>>

\* C22: an inference call that fails with a type mismatch affects only that
\* call: it fails before the mutex is acquired, the mutex is not held after
\* it, the execution states and the compiled programs are unchanged, the
\* evaluation is not retried, and the next call on the same state with
\* correctly typed inputs goes on to the evaluation.
C22_MismatchAffectsOnlyThatCall ==
  /\ [](\A t \in Threads : pc[t] = "failed" => lock[t] = NoMutex)
  /\ [][\A t \in Threads :
          FailingStep(t) =>
            /\ pc[t] \in {"idle", "done", "failed"}
            /\ lock' = lock
            /\ func_states' = func_states
            /\ compileVars' = compileVars
            /\ inference_calls' = inference_calls + 1]_vars
  /\ [][\A t \in Threads :
          (/\ pc[t] = "failed"
           /\ frame'[t] # frame[t]
           /\ frame'[t].node_name = frame[t].node_name
           /\ (\A pair \in InputTypePairs(t) : pair[1] = pair[2])')
            => pc'[t] = "lock"]_vars

\* a call on a state has failed with a type mismatch and another call on the
\* same state, with a correctly typed input, is evaluating
C22_Witness ==
  \E t \in DOMAIN pc : \E u \in DOMAIN pc :
     /\ pc[u] = "failed"
     /\ pc[t] = "eval"
     /\ frame[t].node_name = frame[u].node_name
     /\ \A pair \in InputTypePairs(t) : pair[1] = pair[2]
     /\ \E pair \in InputTypePairs(u) : pair[1] # pair[2]

====
